---- MODULE Spec2Model ----
(***************************************************************************)
(* Model of csv_profiler/profiling.py: the missing-value classifier, the   *)
(* float parser, type inference, numeric and text statistics, the quality  *)
(* inspector and the profile_rows loop.                                    *)
(*                                                                         *)
(* Representation.                                                         *)
(*   - A Python str is a sequence of one-character strings; None (as a     *)
(*     cell value) is the one-element sequence None, which is no string.   *)
(*   - A float is an integer number of ticks, TicksPerUnit ticks to 1.0,   *)
(*     so that one decimal digit and the half of a sum of two such values  *)
(*     are exact.  Optional floats are records [defined, v].               *)
(*   - mean is the exact fraction sum/n; std is carried by its square, the *)
(*     population variance, as a fraction.                                 *)
(*   - missing_pct is carried in tenths of a percent (16.7% is 167).       *)
(*   - A formatted message is a record [fmt, args].                        *)
(* The float literals modelled are the decimal ones (sign, digits, one      *)
(* optional fraction) and the infinities (inf, infinity, any case, with a  *)
(* sign or none); nan and exponent literals are outside the modelled       *)
(* alphabet.  The infinities are the tick counts PosInf and NegInf, beyond *)
(* every finite value of the model, and NaN is the nan that arithmetic on  *)
(* them yields.                                                            *)
(***************************************************************************)
EXTENDS Integers, Sequences, FiniteSets, TLC

VARIABLES
    rows,             \* profile_rows: the dataset passed in
    columns_profile,  \* profile_rows: the column profiles appended so far
    report,           \* profile_rows: the returned report
    value,            \* is_missing: the argument of a direct call
    values,           \* infer_type / numeric_stats / text_stats: the argument
    ret,              \* the value returned by a direct call
    done_calls,       \* the caller's record of earlier profile_rows calls
    pc                \* position of the running call

vars == <<rows, columns_profile, report, value, values, ret, done_calls, pc>>

----------------------------------------------------------------------------
(* Strings *)

None == <<"<None>">>

Whitespace == {" ", "\t", "\n"}

UpperCase == <<"A","B","C","D","E","F","G","H","I","J","K","L","M",
               "N","O","P","Q","R","S","T","U","V","W","X","Y","Z">>
LowerCase == <<"a","b","c","d","e","f","g","h","i","j","k","l","m",
               "n","o","p","q","r","s","t","u","v","w","x","y","z">>

LowerOf ==
    [c \in {UpperCase[i] : i \in 1..Len(UpperCase)} |->
        LowerCase[CHOOSE i \in 1..Len(UpperCase) : UpperCase[i] = c]]

\* str.lower on one character
lower_char(c) == IF c \in DOMAIN LowerOf THEN LowerOf[c] ELSE c

\* str.lower
lower(s) == [i \in 1..Len(s) |-> lower_char(s[i])]

RECURSIVE lstrip(_)
lstrip(s) ==
    IF s # <<>> /\ Head(s) \in Whitespace THEN lstrip(Tail(s)) ELSE s

RECURSIVE rstrip(_)
rstrip(s) ==
    IF s # <<>> /\ s[Len(s)] \in Whitespace
    THEN rstrip(SubSeq(s, 1, Len(s) - 1))
    ELSE s

\* str.strip
strip(s) == rstrip(lstrip(s))

----------------------------------------------------------------------------
(* is_missing *)

MissingTokens ==
    { <<"n","a">>, <<"n","/","a">>, <<"n","u","l","l">>,
      <<"n","o","n","e">>, <<"n","a","n">> }

\* variant of is_missing: the value is not stripped
is_missing_nostrip(v) ==
    IF v = None THEN TRUE
    ELSE LET value_stripped == lower(v)
         IN  IF value_stripped = <<>> THEN TRUE
             ELSE IF value_stripped \in MissingTokens THEN TRUE
             ELSE FALSE

is_missing(v) ==
    IF v = None THEN TRUE
    ELSE LET value_stripped == lower(strip(v))
         IN  IF value_stripped = <<>> THEN TRUE
             ELSE IF value_stripped \in MissingTokens THEN TRUE
             ELSE FALSE

----------------------------------------------------------------------------
(* try_float *)

Absent == [defined |-> FALSE, v |-> 0]
Float(x) == [defined |-> TRUE, v |-> x]

Digits == <<"0","1","2","3","4","5","6","7","8","9">>
IsDigit(c) == \E i \in 1..Len(Digits) : Digits[i] = c
DigitVal(c) == (CHOOSE i \in 1..Len(Digits) : Digits[i] = c) - 1

TicksPerUnit == 2 * 10

RECURSIVE DecVal(_)
DecVal(s) ==
    IF s = <<>> THEN 0 ELSE 10 * DecVal(SubSeq(s, 1, Len(s) - 1)) + DigitVal(s[Len(s)])

RECURSIVE Pow10(_)
Pow10(k) == IF k = 0 THEN 1 ELSE 10 * Pow10(k - 1)

AllDigits(s) == \A i \in 1..Len(s) : IsDigit(s[i])

\* float('inf'), float('-inf') and float('nan') as tick counts
PosInf == 2 ^ 30
NegInf == 0 - PosInf
NaN == PosInf + 1
IsInf(x) == x = PosInf \/ x = NegInf

\* a + b on floats
fadd(a, b) ==
    IF a = NaN \/ b = NaN THEN NaN
    ELSE IF IsInf(a) THEN (IF IsInf(b) /\ b # a THEN NaN ELSE a)
    ELSE IF IsInf(b) THEN b
    ELSE a + b

\* a - b on floats
fsub(a, b) == IF b = NaN THEN NaN ELSE fadd(a, 0 - b)

\* k * a on floats, for a positive whole k
fmul(k, a) == IF a = NaN \/ IsInf(a) THEN a ELSE k * a

\* a / 2 on floats
fhalf(a) == IF a = NaN \/ IsInf(a) THEN a ELSE a \div 2

\* a < b and a <= b on floats: False when either is nan
flt(a, b) == a # NaN /\ b # NaN /\ a < b
fle(a, b) == a # NaN /\ b # NaN /\ a <= b

InfLiterals == { <<"i","n","f">>, <<"i","n","f","i","n","i","t","y">> }

\* float() on an unsigned literal: inf, infinity, digits, digits.digits,
\* digits., .digits
UnsignedFloat(s) ==
    LET dots == {i \in 1..Len(s) : s[i] = "."}
    IN  IF lower(s) \in InfLiterals
        THEN Float(PosInf)
        ELSE IF dots = {}
        THEN IF s # <<>> /\ AllDigits(s)
             THEN Float(DecVal(s) * TicksPerUnit)
             ELSE Absent
        ELSE LET d    == CHOOSE i \in dots : TRUE
                 ip   == SubSeq(s, 1, d - 1)
                 fp   == SubSeq(s, d + 1, Len(s))
             IN  IF Cardinality(dots) = 1 /\ AllDigits(ip) /\ AllDigits(fp)
                    /\ Len(ip) + Len(fp) > 0
                 THEN Float(DecVal(ip) * TicksPerUnit
                            + (DecVal(fp) * TicksPerUnit) \div Pow10(Len(fp)))
                 ELSE Absent

\* float(value), None on ValueError / TypeError
try_float(v) ==
    IF v = None THEN Absent
    ELSE LET s == strip(v)
         IN  IF s # <<>> /\ Head(s) = "-"
             THEN LET u == UnsignedFloat(Tail(s))
                  IN  IF u.defined THEN Float(0 - u.v) ELSE Absent
             ELSE IF s # <<>> /\ Head(s) = "+"
             THEN UnsignedFloat(Tail(s))
             ELSE UnsignedFloat(s)

----------------------------------------------------------------------------
(* Sequence helpers standing for Python built-ins *)

Range(s) == {s[i] : i \in 1..Len(s)}

\* seq.count(x)
Count(s, x) == Cardinality({i \in 1..Len(s) : s[i] = x})

\* the place of s[i] in the stable ascending order of s: after the smaller
\* elements and after the equal ones that come before it
PlaceAsc(s, i) ==
    Cardinality({j \in 1..Len(s) : s[j] < s[i] \/ (s[j] = s[i] /\ j < i)}) + 1

\* sorted(floats), a stable sort
sorted(s) ==
    LET place == [i \in 1..Len(s) |-> PlaceAsc(s, i)]
    IN  [k \in 1..Len(s) |-> s[CHOOSE i \in 1..Len(s) : place[i] = k]]

\* min(floats), max(floats) of a non-empty sequence
min(s) == CHOOSE x \in Range(s) : \A y \in Range(s) : x <= y
max(s) == CHOOSE x \in Range(s) : \A y \in Range(s) : x >= y

\* s[lo] + ... + s[hi], by halves
RECURSIVE SumRange(_, _, _)
SumRange(s, lo, hi) ==
    IF lo > hi THEN 0
    ELSE IF lo = hi THEN s[lo]
    ELSE LET mid == (lo + hi) \div 2
         IN  SumRange(s, lo, mid) + SumRange(s, mid + 1, hi)

sum(s) == SumRange(s, 1, Len(s))

\* the keys of a dict filled in iteration order of s: first appearances
FirstSeen(s) ==
    LET first == {i \in 1..Len(s) : \A h \in 1..(i - 1) : s[h] # s[i]}
    IN  [k \in 1..Cardinality(first) |->
            s[CHOOSE i \in first : Cardinality({h \in first : h < i}) = k - 1]]

\* round(missing_count / total_count * 100, 1), in tenths of a percent
round_pct(missing_count, total_count) ==
    IF total_count > 0
    THEN LET q == (1000 * missing_count) \div total_count
             r == (1000 * missing_count) % total_count
         IN  IF 2 * r < total_count THEN q
             ELSE IF 2 * r > total_count THEN q + 1
             ELSE IF q % 2 = 0 THEN q ELSE q + 1
    ELSE 0

----------------------------------------------------------------------------
(* infer_type *)

non_missing_of(vals) == SelectSeq(vals, LAMBDA v : ~is_missing(v))

\* lines 145-149: the loop returns "text" at the first value that does not
\* parse and "number" when it runs to the end
all_parse(non_missing) ==
    IF \E i \in 1..Len(non_missing) : ~try_float(non_missing[i]).defined
    THEN "text"
    ELSE "number"

\* variant of infer_type: no default for a column without present values
infer_type_empty_number(vals) == all_parse(non_missing_of(vals))

infer_type(vals) ==
    LET non_missing == non_missing_of(vals)
    IN  IF non_missing = <<>> THEN "text"
        ELSE all_parse(non_missing)

----------------------------------------------------------------------------
(* numeric_stats *)

\* floats = [try_float(v) ...]; floats = [f for f in floats if f is not None]
floats_of(vals) ==
    LET non_missing_values == non_missing_of(vals)
        parsed == [i \in 1..Len(non_missing_values) |-> try_float(non_missing_values[i])]
        kept   == SelectSeq(parsed, LAMBDA f : f.defined)
    IN  [i \in 1..Len(kept) |-> kept[i].v]

\* variant of median: the values are not sorted
median_unsorted(floats) ==
    LET n == Len(floats)
    IN  IF n % 2 = 0
        THEN fhalf(fadd(floats[n \div 2], floats[n \div 2 + 1]))
        ELSE floats[n \div 2 + 1]

\* lines 188-192; sequences are 1-based, so index k in the code is k + 1
median(floats) ==
    LET sorted_floats == sorted(floats)
        n == Len(sorted_floats)
    IN  IF n % 2 = 0
        THEN fhalf(fadd(sorted_floats[n \div 2], sorted_floats[n \div 2 + 1]))
        ELSE sorted_floats[n \div 2 + 1]

\* variant of mode: the first of the most frequent values, ties included
mode_first(floats) ==
    LET keys     == FirstSeen(floats)
        max_freq == max([i \in 1..Len(keys) |-> Count(floats, keys[i])])
        modes    == SelectSeq(keys, LAMBDA k : Count(floats, k) = max_freq)
    IN  Float(modes[1])

\* lines 194-200
mode(floats) ==
    LET keys     == FirstSeen(floats)
        max_freq == max([i \in 1..Len(keys) |-> Count(floats, keys[i])])
        modes    == SelectSeq(keys, LAMBDA k : Count(floats, k) = max_freq)
    IN  IF Len(modes) = 1 THEN Float(modes[1]) ELSE Absent

QuartileMin == 4

\* variant of quartiles: n > 4 in place of n >= 4
quartiles_gt(floats) ==
    LET sorted_floats == sorted(floats)
        n == Len(sorted_floats)
    IN  IF n > QuartileMin
        THEN [q1 |-> Float(sorted_floats[n \div 4 + 1]),
              q3 |-> Float(sorted_floats[(3 * n) \div 4 + 1])]
        ELSE [q1 |-> Absent, q3 |-> Absent]

\* variant of quartiles: the values are not sorted
quartiles_unsorted(floats) ==
    LET n == Len(floats)
    IN  IF n >= QuartileMin
        THEN [q1 |-> Float(floats[n \div 4 + 1]),
              q3 |-> Float(floats[(3 * n) \div 4 + 1])]
        ELSE [q1 |-> Absent, q3 |-> Absent]

\* lines 207-213
quartiles(floats) ==
    LET sorted_floats == sorted(floats)
        n == Len(sorted_floats)
    IN  IF n >= QuartileMin
        THEN [q1 |-> Float(sorted_floats[n \div 4 + 1]),
              q3 |-> Float(sorted_floats[(3 * n) \div 4 + 1])]
        ELSE [q1 |-> Absent, q3 |-> Absent]

\* sum(floats): nan once inf and -inf have met, the infinity there is
\* otherwise
fsum(floats) ==
    IF PosInf \in Range(floats) /\ NegInf \in Range(floats) THEN NaN
    ELSE IF PosInf \in Range(floats) THEN PosInf
    ELSE IF NegInf \in Range(floats) THEN NegInf
    ELSE sum(floats)

\* sum(floats) / len(floats), as a fraction
mean_of(floats) ==
    [defined |-> TRUE,
     num |-> fsum(floats),
     den |-> IF \E i \in 1..Len(floats) : IsInf(floats[i]) THEN 1 ELSE Len(floats)]

\* (sum((x - mean) ** 2) / len(floats)) ** 0.5, carried by its square:
\* the variance n * sum(x^2) - sum(x)^2 over n^2
\* with an infinite x the mean is infinite or nan and (x - mean) ** 2 is nan
std_of(floats) ==
    LET n == Len(floats)
        squares == sum([i \in 1..n |-> floats[i] * floats[i]])
    IN  IF \E i \in 1..n : IsInf(floats[i])
        THEN [defined |-> TRUE, sq_num |-> NaN, sq_den |-> 1]
        ELSE [defined |-> TRUE,
              sq_num |-> n * squares - sum(floats) * sum(floats),
              sq_den |-> n * n]

AbsentFraction == [defined |-> FALSE, num |-> 0, den |-> 1]
AbsentStd == [defined |-> FALSE, sq_num |-> 0, sq_den |-> 1]

\* variant of non_missing_count_of: the number of values that parse
parsed_count(vals) == Len(floats_of(vals))

\* lines 162-164: non_missing_count = total_count - missing_count
non_missing_count_of(vals) ==
    Len(vals) - Cardinality({i \in 1..Len(vals) : is_missing(vals[i])})

numeric_stats(vals) ==
    LET total_count        == Len(vals)
        missing_count      == Cardinality({i \in 1..Len(vals) : is_missing(vals[i])})
        non_missing_count  == non_missing_count_of(vals)
        floats             == floats_of(vals)
        unique_count       == Cardinality(Range(floats))
        stats == [count       |-> non_missing_count,
                  missing     |-> missing_count,
                  missing_pct |-> round_pct(missing_count, total_count),
                  unique      |-> unique_count]
        q == quartiles(floats)
    IN  IF floats # <<>>
        THEN stats @@
             [min    |-> Float(min(floats)),
              max    |-> Float(max(floats)),
              mean   |-> mean_of(floats),
              median |-> Float(median(floats)),
              mode   |-> mode(floats),
              std    |-> std_of(floats),
              q1     |-> q.q1,
              q3     |-> q.q3]
        ELSE stats @@
             [min    |-> Absent,
              max    |-> Absent,
              mean   |-> AbsentFraction,
              median |-> Absent,
              mode   |-> Absent,
              std    |-> AbsentStd,
              q1     |-> Absent,
              q3     |-> Absent]

----------------------------------------------------------------------------
(* text_stats *)

TopK == 5

\* insertion into a sequence of (value, count) items kept in descending
\* count, after every item whose count is not smaller: a stable sort
RECURSIVE InsertDesc(_, _)
InsertDesc(items, it) ==
    IF items = <<>> THEN <<it>>
    ELSE IF it.count > Head(items).count THEN <<it>> \o items
    ELSE <<Head(items)>> \o InsertDesc(Tail(items), it)

RECURSIVE SortDesc(_)
SortDesc(items) ==
    IF items = <<>> THEN <<>>
    ELSE InsertDesc(SortDesc(SubSeq(items, 1, Len(items) - 1)), items[Len(items)])

Take(s, k) == SubSeq(s, 1, IF Len(s) < k THEN Len(s) ELSE k)

\* Counter(non_missing_values).items(), in insertion order
counter_items(non_missing_values) ==
    LET keys == FirstSeen(non_missing_values)
    IN  [i \in 1..Len(keys) |->
            [value |-> keys[i], count |-> Count(non_missing_values, keys[i])]]

\* variant of most_common: the first top_k items in insertion order
most_common_unsorted(items, top_k) == Take(items, top_k)

\* Counter.most_common(top_k): heapq.nlargest(top_k, items, key=count), which
\* equals sorted(items, key=count, reverse=True)[:top_k], a stable sort
most_common(items, top_k) == Take(SortDesc(items), top_k)

text_stats(vals, top_k) ==
    LET total_count        == Len(vals)
        missing_count      == Cardinality({i \in 1..Len(vals) : is_missing(vals[i])})
        non_missing_count  == total_count - missing_count
        non_missing_values == non_missing_of(vals)
        unique_count       == Cardinality(Range(non_missing_values))
        top_list           == most_common(counter_items(non_missing_values), top_k)
    IN  [count       |-> non_missing_count,
         missing     |-> missing_count,
         missing_pct |-> round_pct(missing_count, total_count),
         unique      |-> unique_count,
         top         |-> top_list]

----------------------------------------------------------------------------
(* detect_quality_issues *)

HighMissingPct == 50
ModerateMissingPct == 20
LowCardinalityRows == 100
LowCardinalityUnique == 5
IdentifierCount == 10
DominantPct == 90

Issue(level, fmt, args) ==
    [level |-> level, message |-> [fmt |-> fmt, args |-> args]]

\* a message format is a sequence of pieces of text
HighMissingFmt == <<"High", " missing data: {:.1f}% of values are missing">>
ModerateMissingFmt == <<"Moderate", " missing data: {:.1f}% of values are missing">>
LowCardinalityFmt == <<"Low cardinality: Only {} unique values in {} rows">>
IdentifierFmt == <<"All values are unique - this may be an identifier column">>
OutlierFmt == <<"Potential outliers detected (values outside [{:.2f}, {:.2f}])">>
VariabilityFmt ==
    <<"High variability: Standard deviation ({:.2f}) is large relative to mean ({:.2f})">>
DominantFmt == <<"Single dominant value: '{}' appears in {:.1f}% of rows">>

\* variant of missing_issue: the second test is an if, not an elif
missing_issue_no_elif(col_profile) ==
    (IF col_profile.missing_pct > HighMissingPct * 10
     THEN <<Issue("warning", HighMissingFmt, [pct |-> col_profile.missing_pct])>>
     ELSE <<>>)
    \o
    (IF col_profile.missing_pct > ModerateMissingPct * 10
     THEN <<Issue("info", ModerateMissingFmt, [pct |-> col_profile.missing_pct])>>
     ELSE <<>>)

\* variant of missing_issue: the info-level issue worded as the warning
missing_issue_same_wording(col_profile) ==
    IF col_profile.missing_pct > HighMissingPct * 10
    THEN <<Issue("warning", HighMissingFmt, [pct |-> col_profile.missing_pct])>>
    ELSE IF col_profile.missing_pct > ModerateMissingPct * 10
    THEN <<Issue("info", HighMissingFmt, [pct |-> col_profile.missing_pct])>>
    ELSE <<>>

\* lines 23-33; missing_pct is in tenths of a percent
missing_issue(col_profile) ==
    IF col_profile.missing_pct > HighMissingPct * 10
    THEN <<Issue("warning", HighMissingFmt, [pct |-> col_profile.missing_pct])>>
    ELSE IF col_profile.missing_pct > ModerateMissingPct * 10
    THEN <<Issue("info", ModerateMissingFmt, [pct |-> col_profile.missing_pct])>>
    ELSE <<>>

\* lines 35-40
low_cardinality_issue(col_profile, n_rows) ==
    IF n_rows > LowCardinalityRows /\ col_profile.unique < LowCardinalityUnique
       /\ col_profile.type # "text"
    THEN <<Issue("info", LowCardinalityFmt,
                 [unique |-> col_profile.unique, n_rows |-> n_rows])>>
    ELSE <<>>

\* variant of identifier_issue: count >= 10 in place of count > 10
identifier_issue_ge(col_profile) ==
    IF col_profile.unique = col_profile.count /\ col_profile.count >= IdentifierCount
    THEN <<Issue("info", IdentifierFmt, [none |-> TRUE])>>
    ELSE <<>>

\* lines 42-47
identifier_issue(col_profile) ==
    IF col_profile.unique = col_profile.count /\ col_profile.count > IdentifierCount
    THEN <<Issue("info", IdentifierFmt, [none |-> TRUE])>>
    ELSE <<>>

\* lines 52-61; the bounds q1 - 1.5 * iqr and q3 + 1.5 * iqr are doubled to
\* stay whole, and so are min and max in the comparison
outlier_issue(col_profile) ==
    IF col_profile.q1.defined /\ col_profile.q3.defined
    THEN LET iqr          == fsub(col_profile.q3.v, col_profile.q1.v)
             lower_bound2 == fsub(fmul(2, col_profile.q1.v), fmul(3, iqr))
             upper_bound2 == fadd(fmul(2, col_profile.q3.v), fmul(3, iqr))
         IN  IF flt(fmul(2, col_profile.min.v), lower_bound2)
                \/ flt(upper_bound2, fmul(2, col_profile.max.v))
             THEN <<Issue("info", OutlierFmt,
                          [lower2 |-> lower_bound2, upper2 |-> upper_bound2])>>
             ELSE <<>>
    ELSE <<>>

\* lines 63-68; std / abs(mean) > 1 is compared through the squares:
\* variance > mean^2, both over the denominator n^2
variability_issue(col_profile) ==
    IF col_profile.mean.num # 0
       /\ col_profile.std.sq_num # NaN
       /\ col_profile.std.sq_num > col_profile.mean.num * col_profile.mean.num
    THEN <<Issue("info", VariabilityFmt,
                 [std |-> col_profile.std, mean |-> col_profile.mean])>>
    ELSE <<>>

\* lines 70-80; top_pct > 90 is compared without the division
dominant_issue(col_profile, n_rows) ==
    IF col_profile.top # <<>> /\ Len(col_profile.top) > 0
    THEN LET top_count == col_profile.top[1].count
         IN  IF top_count * 100 > DominantPct * n_rows
             THEN <<Issue("info", DominantFmt,
                          [value |-> col_profile.top[1].value,
                           top_pct |-> round_pct(top_count, n_rows)])>>
             ELSE <<>>
    ELSE <<>>

\* variant of detect_quality_issues: the variability check before the
\* outlier check
detect_quality_issues_swapped(col_profile, n_rows) ==
    missing_issue(col_profile)
    \o low_cardinality_issue(col_profile, n_rows)
    \o identifier_issue(col_profile)
    \o (IF col_profile.type = "number" /\ col_profile.std.defined
        THEN variability_issue(col_profile) \o outlier_issue(col_profile)
        ELSE <<>>)
    \o (IF col_profile.type = "text"
        THEN dominant_issue(col_profile, n_rows)
        ELSE <<>>)

detect_quality_issues(col_profile, n_rows) ==
    missing_issue(col_profile)
    \o low_cardinality_issue(col_profile, n_rows)
    \o identifier_issue(col_profile)
    \o (IF col_profile.type = "number" /\ col_profile.std.defined
        THEN outlier_issue(col_profile) \o variability_issue(col_profile)
        ELSE <<>>)
    \o (IF col_profile.type = "text"
        THEN dominant_issue(col_profile, n_rows)
        ELSE <<>>)

----------------------------------------------------------------------------
(* profile_rows *)

\* A row is a dict in insertion order: a sequence of [key, cell] items with
\* distinct keys.
\* variant of keys: the keys in reverse insertion order
keys_reversed(row) == [i \in 1..Len(row) |-> row[Len(row) + 1 - i].key]

\* line 283: list(rows[0].keys())
keys(row) == [i \in 1..Len(row) |-> row[i].key]

HasKey(row, k) == \E i \in 1..Len(row) : row[i].key = k

\* row.get(k, default)
get(row, k, default) ==
    IF HasKey(row, k)
    THEN row[CHOOSE i \in 1..Len(row) : row[i].key = k].cell
    ELSE default

\* variant of column_values: rows without the key are skipped
column_values_skip(rs, col_name) ==
    LET having == SelectSeq(rs, LAMBDA row : HasKey(row, col_name))
    IN  [i \in 1..Len(having) |-> get(having[i], col_name, <<>>)]

\* line 290: [row.get(col_name, "") for row in rows]
column_values(rs, col_name) ==
    [i \in 1..Len(rs) |-> get(rs[i], col_name, <<>>)]

\* lines 288-316: the body of the loop for one column
column_profile(rs, col_name) ==
    LET n_rows   == Len(rs)
        vals     == column_values(rs, col_name)
        col_type == infer_type(vals)
        stats    == IF col_type = "number"
                    THEN numeric_stats(vals)
                    ELSE text_stats(vals, TopK)
        col_profile    == [name |-> col_name, type |-> col_type] @@ stats
        quality_issues == detect_quality_issues(col_profile, n_rows)
    IN  IF quality_issues # <<>>
        THEN col_profile @@ [quality_issues |-> quality_issues]
        ELSE col_profile

NotReturned == [returned |-> FALSE]

\* lines 275-280
ReturnEmpty ==
    /\ pc = "profile_rows"
    /\ rows = <<>>
    /\ report' = [n_rows |-> 0, n_cols |-> 0, columns |-> <<>>]
    /\ pc' = "done"
    /\ UNCHANGED <<rows, columns_profile, value, values, ret, done_calls>>

\* lines 288-316: one iteration of the loop over column_names
ProfileColumn ==
    /\ pc = "profile_rows"
    /\ rows # <<>>
    /\ LET column_names == keys(rows[1])
       IN  /\ Len(columns_profile) < Len(column_names)
           /\ columns_profile' =
                  Append(columns_profile,
                         column_profile(rows, column_names[Len(columns_profile) + 1]))
    /\ UNCHANGED <<rows, report, value, values, ret, pc, done_calls>>

\* lines 318-322
Return ==
    /\ pc = "profile_rows"
    /\ rows # <<>>
    /\ LET column_names == keys(rows[1])
       IN  /\ Len(columns_profile) = Len(column_names)
           /\ report' = [n_rows  |-> Len(rows),
                         n_cols  |-> Len(column_names),
                         columns |-> columns_profile]
    /\ pc' = "done"
    /\ UNCHANGED <<rows, columns_profile, value, values, ret, done_calls>>

\* variant of new_columns_profile: the list of an earlier call is kept
kept_columns_profile == columns_profile

\* line 286: columns_profile = [], a list local to the call
new_columns_profile == <<>>

\* the caller keeps the report and calls profile_rows again, on any dataset
CallAgain(next_rows) ==
    /\ pc = "done"
    /\ done_calls' = Append(done_calls, [rows |-> rows, report |-> report])
    /\ rows' = next_rows
    /\ columns_profile' = new_columns_profile
    /\ report' = NotReturned
    /\ pc' = "profile_rows"
    /\ UNCHANGED <<value, values, ret>>

----------------------------------------------------------------------------
(* Direct calls of the module's functions *)

CallIsMissing ==
    /\ pc = "is_missing"
    /\ ret' = is_missing(value)
    /\ pc' = "returned"
    /\ UNCHANGED <<rows, columns_profile, report, value, values, done_calls>>

CallInferType ==
    /\ pc = "infer_type"
    /\ ret' = [fn |-> "infer_type", out |-> infer_type(values)]
    /\ pc' = "returned"
    /\ UNCHANGED <<rows, columns_profile, report, value, values, done_calls>>

CallNumericStats ==
    /\ pc = "numeric_stats"
    /\ ret' = [fn |-> "numeric_stats", out |-> numeric_stats(values)]
    /\ pc' = "returned"
    /\ UNCHANGED <<rows, columns_profile, report, value, values, done_calls>>

CallTextStats ==
    /\ pc = "text_stats"
    /\ ret' = [fn |-> "text_stats", out |-> text_stats(values, TopK)]
    /\ pc' = "returned"
    /\ UNCHANGED <<rows, columns_profile, report, value, values, done_calls>>

----------------------------------------------------------------------------
(* Inputs *)

SeqsUpTo(S, n) == UNION {[1..k -> S] : k \in 0..n}

\* str(i) for i >= 0
RECURSIVE ToStr(_)
ToStr(i) ==
    IF i < 10 THEN <<Digits[i + 1]>>
    ELSE ToStr(i \div 10) \o <<Digits[(i % 10) + 1]>>

\* is_missing: every string over Alphabet up to MaxStrLen characters, and None
MaxStrLen == 4
Alphabet == {" ", "\t", "n", "a", "N", "A", "/", "u", "l", "o", "e", "x"}
StrInputs(n) == SeqsUpTo(Alphabet, n) \cup {None}

\* infer_type: every column of up to MaxInferValues cells
MaxInferValues == 4
InferCells ==
    { <<"1">>, <<"2">>, <<"-","3",".","5">>, <<" ","1",".","0">>,
      <<"N","A">>, <<>>, <<"x">>, None }
InferInputs(n) == SeqsUpTo(InferCells, n)

\* numeric_stats: every column of up to MaxValues cells
MaxValues == 5
ColumnCells == { <<"1">>, <<"2">>, <<"3">>, <<"4">>, <<"N","A">>, <<"x">> }
ColumnInputs(n) == SeqsUpTo(ColumnCells, n)

\* text_stats: columns of up to MaxTextValues cells over six text values and
\* a missing token, a new text value appearing only after the ones before it
\* in TextValues (text_stats reads a value only through equality and
\* is_missing, so a renaming of the values changes nothing)
MaxTextValues == 7
TextValues == << <<"a">>, <<"b">>, <<"c">>, <<"d">>, <<"e">>, <<"f">> >>
TextMissing == <<"n","/","a">>
\* the cells that may follow s: the missing token, the text values s holds
\* and the next one of TextValues
NextCells(s) ==
    LET used == Cardinality(Range(s) \ {TextMissing})
        upto == IF used < Len(TextValues) THEN used + 1 ELSE Len(TextValues)
    IN  {TextMissing} \cup {TextValues[j] : j \in 1..upto}
RECURSIVE TextInputs(_)
TextInputs(n) ==
    IF n = 0 THEN {<<>>}
    ELSE LET shorter == TextInputs(n - 1)
         IN  shorter \cup
             UNION { {Append(s, c) : c \in NextCells(s)} :
                     s \in {t \in shorter : Len(t) = n - 1} }

\* profile_rows: every dataset of up to MaxRows rows whose first row has keys
\* among a, b in either order and whose later rows have any of a, b, or a and
\* a key c of their own
MaxRows == 2
DataCells == { None, <<"1">>, <<" ","1",".","0">>, <<"x">> }
RowsOver(keyseq) ==
    { [i \in 1..Len(keyseq) |-> [key |-> keyseq[i], cell |-> c[i]]] :
        c \in [1..Len(keyseq) -> DataCells] }
FirstRows ==
    UNION { RowsOver(ks) : ks \in {<<>>, <<"a">>, <<"b">>, <<"a","b">>, <<"b","a">>} }
LaterRows ==
    LET base == UNION { RowsOver(ks) : ks \in {<<>>, <<"a">>, <<"b">>, <<"a","b">>} }
    IN  base \cup { r \o << [key |-> "c", cell |-> <<"7">>] >> : r \in RowsOver(<<"a">>) }
SmallDatasets(n) ==
    {<<>>} \cup
    UNION { { <<first>> \o rest : first \in FirstRows, rest \in [1..k -> LaterRows] } :
            k \in 0..(n - 1) }

\* profile_rows: long datasets with a numeric column a and a text column b:
\* d rows of distinct values, r repeats of the first row, m rows of missing
\* cells
MaxDistinct == 11
MaxRepeats == 1
MaxMissingCells == 3
ValueRow(i) ==
    << [key |-> "a", cell |-> ToStr(i)], [key |-> "b", cell |-> <<"x">> \o ToStr(i)] >>
MissingRow ==
    << [key |-> "a", cell |-> <<>>], [key |-> "b", cell |-> <<" ","n","/","a">>] >>
LongDataset(d, r, m) ==
    [i \in 1..(d + r + m) |->
        IF i <= d THEN ValueRow(i)
        ELSE IF i <= d + r THEN ValueRow(1)
        ELSE MissingRow]
LongDatasets(max_d, max_r, max_m) ==
    { LongDataset(d, r, m) : d \in 1..max_d, r \in 0..max_r, m \in 0..max_m }

\* profile_rows: long datasets whose numeric column holds 1 .. d - 1 and the
\* far value 100, then m rows of missing cells
SpreadDataset(d, m) ==
    [i \in 1..(d + m) |->
        IF i < d THEN ValueRow(i)
        ELSE IF i = d THEN ValueRow(100)
        ELSE MissingRow]
SpreadDatasets(max_d, max_m) ==
    { SpreadDataset(d, m) : d \in 1..max_d, m \in 0..max_m }

\* profile_rows: datasets of about LowCardinalityRows rows: lo rows of a low
\* value, hi rows of a high one, m rows of missing cells
MaxHigh == 1
BulkMissing == {0, 30, 110}
BulkRow(a, b) == << [key |-> "a", cell |-> a], [key |-> "b", cell |-> b] >>
BulkDataset(lo, hi, m) ==
    [i \in 1..(lo + hi + m) |->
        IF i <= lo THEN BulkRow(<<"1">>, <<"k">>)
        ELSE IF i <= lo + hi THEN BulkRow(<<"9","0">>, <<"j">>)
        ELSE MissingRow]
BulkDatasets(max_hi) ==
    { BulkDataset(lo, hi, m) :
        lo \in {LowCardinalityRows - 1, LowCardinalityRows},
        hi \in 0..max_hi, m \in BulkMissing }

\* profile_rows: the datasets of QuartileMin rows whose numeric column a
\* holds infinities
ExtremeCells == { <<"1">>, <<"i","n","f">>, <<"-","I","n","f">> }
ExtremeDatasets ==
    { [i \in 1..QuartileMin |-> BulkRow(c[i], <<"k">>)] :
        c \in [1..QuartileMin -> ExtremeCells] }

\* numeric_stats: every column of up to MaxExtremeValues cells, infinities
\* among them
MaxExtremeValues == 5
ExtremeValueCells ==
    { <<"1">>, <<"2">>, <<"3">>, <<"i","n","f">>, <<"-","i","n","f">>,
      <<"I","n","f","i","n","i","t","y">> }
ExtremeInputs(n) == SeqsUpTo(ExtremeValueCells, n)

----------------------------------------------------------------------------
(* Specifications *)

\* profile_rows called on a dataset
Init ==
    /\ rows \in SmallDatasets(MaxRows)
                 \cup LongDatasets(MaxDistinct, MaxRepeats, MaxMissingCells)
                 \cup SpreadDatasets(MaxDistinct, MaxMissingCells)
                 \cup BulkDatasets(MaxHigh)
                 \cup ExtremeDatasets
    /\ columns_profile = <<>>
    /\ report = NotReturned
    /\ value = None
    /\ values = <<>>
    /\ ret = None
    /\ done_calls = <<>>
    /\ pc = "profile_rows"

Next == ReturnEmpty \/ ProfileColumn \/ Return

Spec == Init /\ [][Next]_vars

\* profile_rows called up to MaxCalls times in a row, each time on one of a
\* few datasets
MaxCalls == 3
CallDatasets ==
    { <<>>,
      << BulkRow(<<"1">>, <<"x">>), BulkRow(None, <<"x">>) >>,
      << BulkRow(<<"x">>, <<" ","1",".","0">>), << [key |-> "b", cell |-> <<"2">>] >> >>,
      LongDataset(11, 1, 3),
      SpreadDataset(5, 2) }

InitCalls ==
    /\ rows \in CallDatasets
    /\ columns_profile = <<>>
    /\ report = NotReturned
    /\ value = None
    /\ values = <<>>
    /\ ret = None
    /\ done_calls = <<>>
    /\ pc = "profile_rows"

NextCalls ==
    \/ ReturnEmpty
    \/ ProfileColumn
    \/ Return
    \/ \E next_rows \in CallDatasets :
           Len(done_calls) < MaxCalls - 1 /\ CallAgain(next_rows)

SpecCalls == InitCalls /\ [][NextCalls]_vars

\* is_missing called on a value
InitMissing ==
    /\ value \in StrInputs(MaxStrLen)
    /\ rows = <<>>
    /\ columns_profile = <<>>
    /\ report = NotReturned
    /\ values = <<>>
    /\ ret = None
    /\ done_calls = <<>>
    /\ pc = "is_missing"

NextMissing == CallIsMissing

SpecMissing == InitMissing /\ [][NextMissing]_vars

\* infer_type called on a column of values
InitInfer ==
    /\ values \in InferInputs(MaxInferValues)
    /\ rows = <<>>
    /\ columns_profile = <<>>
    /\ report = NotReturned
    /\ value = None
    /\ ret = None
    /\ done_calls = <<>>
    /\ pc = "infer_type"

NextInfer == CallInferType

SpecInfer == InitInfer /\ [][NextInfer]_vars

\* numeric_stats called on a column of values
InitColumn ==
    /\ values \in ColumnInputs(MaxValues)
    /\ rows = <<>>
    /\ columns_profile = <<>>
    /\ report = NotReturned
    /\ value = None
    /\ ret = None
    /\ done_calls = <<>>
    /\ pc = "numeric_stats"

NextColumn == CallNumericStats

SpecColumn == InitColumn /\ [][NextColumn]_vars

\* numeric_stats called on a column of values with infinities
InitExtreme ==
    /\ values \in ExtremeInputs(MaxExtremeValues)
    /\ rows = <<>>
    /\ columns_profile = <<>>
    /\ report = NotReturned
    /\ value = None
    /\ ret = None
    /\ done_calls = <<>>
    /\ pc = "numeric_stats"

NextExtreme == CallNumericStats

SpecExtreme == InitExtreme /\ [][NextExtreme]_vars

\* text_stats called on a column of values
InitText ==
    /\ values \in TextInputs(MaxTextValues)
    /\ rows = <<>>
    /\ columns_profile = <<>>
    /\ report = NotReturned
    /\ value = None
    /\ ret = None
    /\ done_calls = <<>>
    /\ pc = "text_stats"

NextText == CallTextStats

SpecText == InitText /\ [][NextText]_vars

----------------------------------------------------------------------------
(* Properties *)

\* col.get('quality_issues'), an absent key read as the empty list
Issues(col) ==
    IF "quality_issues" \in DOMAIN col THEN col.quality_issues ELSE <<>>

IssuesWith(col, fmts) ==
    SelectSeq(Issues(col), LAMBDA issue : issue.message.fmt \in fmts)

MissingIssues(col) == IssuesWith(col, {HighMissingFmt, ModerateMissingFmt})

\* the value at 0-based index k of the ascending order of fl, by counting:
\* at most k elements are smaller and more than k are smaller or equal
KthSmallest(fl, k) ==
    CHOOSE x \in Range(fl) :
        /\ Cardinality({i \in 1..Len(fl) : fl[i] < x}) <= k
        /\ Cardinality({i \in 1..Len(fl) : fl[i] <= x}) > k

Swap(s, i, j) ==
    [h \in 1..Len(s) |-> IF h = i THEN s[j] ELSE IF h = j THEN s[i] ELSE s[h]]

Returned(fn) == pc = "returned" /\ ret.fn = fn

\* C1: in every column profile built by profile_rows on a non-empty dataset,
\* numeric or text, count + missing equals the number of rows, and the
\* returned report carries these profiles with n_rows the number of rows.
C1_CountPlusMissing ==
    /\ \A i \in 1..Len(columns_profile) :
           columns_profile[i].count + columns_profile[i].missing = Len(rows)
    /\ (pc = "done" /\ rows # <<>>) =>
           /\ report.n_rows = Len(rows)
           /\ \A i \in 1..Len(report.columns) :
                  report.columns[i].count + report.columns[i].missing = report.n_rows

\* a returned report with a numeric and a text column, both with missing
\* values, one of them from a row that lacks the key
C1_Witness ==
    /\ pc = "done"
    /\ Len(rows) >= 2
    /\ \E i \in 1..Len(rows) : ~HasKey(rows[i], "a")
    /\ \E i, j \in 1..Len(report.columns) :
           /\ report.columns[i].type = "number" /\ report.columns[i].missing > 0
           /\ report.columns[i].name = "a"
           /\ report.columns[j].type = "text" /\ report.columns[j].missing > 0
           /\ report.columns[j].count > 0

\* C2: infer_type returns "number" exactly when at least one value is not
\* missing and every value that is not missing parses with try_float, and
\* "text" in every other case.
C2_InferType ==
    Returned("infer_type") =>
        LET present == {i \in 1..Len(values) : ~is_missing(values[i])}
            numeric == /\ present # {}
                       /\ \A i \in present : try_float(values[i]).defined
        IN  /\ numeric => ret.out = "number"
            /\ ~numeric => ret.out = "text"

\* "number" returned for a column that also holds missing values
C2_Witness ==
    /\ Returned("infer_type")
    /\ ret.out = "number"
    /\ \E i \in 1..Len(values) : is_missing(values[i])
    /\ \E i, j \in 1..Len(values) :
           values[i] = <<"-","3",".","5">> /\ values[j] = <<" ","1",".","0">>

\* the upper-case and lower-case forms of a lower-case character
CaseForms(c) ==
    {c} \cup {UpperCase[i] : i \in {j \in 1..Len(LowerCase) : LowerCase[j] = c}}

\* v is whitespace, then token t in any mix of cases, then whitespace
Surrounds(v, t) ==
    \E i \in 0..Len(v) :
        /\ i + Len(t) <= Len(v)
        /\ \A k \in 1..i : v[k] \in Whitespace
        /\ \A k \in 1..Len(t) : v[i + k] \in CaseForms(t[k])
        /\ \A k \in (i + Len(t) + 1)..Len(v) : v[k] \in Whitespace

\* C3: is_missing(value) is true exactly when value is None or, stripped of
\* surrounding whitespace and lower-cased, is the empty string or one of
\* na, n/a, null, none, nan.
C3_IsMissing ==
    pc = "returned" =>
        (ret = TRUE) <=>
            \/ value = None
            \/ \E t \in { <<>>, <<"n","a">>, <<"n","/","a">>, <<"n","u","l","l">>,
                          <<"n","o","n","e">>, <<"n","a","n">> } : Surrounds(value, t)

\* true returned for a token in mixed case between whitespace
C3_Witness ==
    /\ pc = "returned"
    /\ ret = TRUE
    /\ value = <<" ", "N", "a", "\t">>

C5_Mode ==
    (Returned("numeric_stats") /\ Len(floats_of(values)) >= 1) =>
        LET fl == floats_of(values)
            strictly_most == {x \in Range(fl) :
                                \A y \in Range(fl) \ {x} : Count(fl, x) > Count(fl, y)}
            md == ret.out.mode
        IN  /\ md.defined <=> strictly_most # {}
            /\ md.defined => md.v \in strictly_most
            /\ values = << <<"1">>, <<"1">>, <<"2">>, <<"2">>, <<"3">> >> => ~md.defined
            /\ values = << <<"1">>, <<"1">>, <<"2">> >> =>
                   md.defined /\ md.v = TicksPerUnit

\* [1,1,2,2,3]: a tie for the highest frequency, mode absent
C5_Witness ==
    /\ Returned("numeric_stats")
    /\ values = << <<"1">>, <<"1">>, <<"2">>, <<"2">>, <<"3">> >>
    /\ ~ret.out.mode.defined

\* C6: numeric_stats defines q1 and q3 exactly when n >= 4 values parse; q1
\* is then the value at index n \div 4 of the ascending order and q3 the
\* value at index (3 * n) \div 4.
C6_Quartiles ==
    Returned("numeric_stats") =>
        LET fl == floats_of(values)
            n  == Len(fl)
            q1 == ret.out.q1
            q3 == ret.out.q3
        IN  /\ q1.defined <=> n >= 4
            /\ q3.defined <=> n >= 4
            /\ n >= 4 =>
                   /\ q1.v = KthSmallest(fl, n \div 4)
                   /\ q3.v = KthSmallest(fl, (3 * n) \div 4)
            /\ n = 4 => /\ q1.v = KthSmallest(fl, 1)
                        /\ q3.v = KthSmallest(fl, 3)

\* four distinct parsed values out of order: q1 the second, q3 the fourth
C6_Witness ==
    /\ Returned("numeric_stats")
    /\ values = << <<"3">>, <<"4">>, <<"1">>, <<"2">> >>
    /\ ret.out.q1 = Float(2 * TicksPerUnit)
    /\ ret.out.q3 = Float(4 * TicksPerUnit)

\* 1-based position of the first appearance of x in s
FirstIndex(s, x) == CHOOSE i \in 1..Len(s) : s[i] = x /\ \A h \in 1..(i - 1) : s[h] # x

\* (value x, count c) comes before (value y, count d) in top order
Before(s, x, y) ==
    \/ Count(s, x) > Count(s, y)
    \/ Count(s, x) = Count(s, y) /\ FirstIndex(s, x) < FirstIndex(s, y)

\* C7: top of text_stats holds at most 5 {value, count} pairs: the most
\* frequent values that are not missing, with their exact numbers of
\* occurrences, by descending count and, at equal count, by first
\* appearance; the same order decides which values are left out.
C7_Top ==
    Returned("text_stats") =>
        LET top     == ret.out.top
            present == {values[i] : i \in {h \in 1..Len(values) : ~is_missing(values[h])}}
            listed  == {top[i].value : i \in 1..Len(top)}
        IN  /\ Len(top) <= 5
            /\ Len(top) = (IF Cardinality(present) < 5 THEN Cardinality(present) ELSE 5)
            /\ \A i \in 1..Len(top) :
                   /\ DOMAIN top[i] = {"value", "count"}
                   /\ top[i].value \in present
                   /\ top[i].count = Count(values, top[i].value)
            /\ \A i, j \in 1..Len(top) :
                   i < j => Before(values, top[i].value, top[j].value)
            /\ \A x \in present \ listed :
                   \A i \in 1..Len(top) : Before(values, top[i].value, x)
            /\ values = << <<"a">>, <<"b">>, <<"a">>, <<"c">>, <<"a">>, <<"b">> >> =>
                   SubSeq(top, 1, 2) = << [value |-> <<"a">>, count |-> 3],
                                          [value |-> <<"b">>, count |-> 2] >>

\* six distinct values, the fifth and the one left out with the same count
C7_Witness ==
    /\ Returned("text_stats")
    /\ Len(ret.out.top) = 5
    /\ ret.out.top[1].count = 2
    /\ ret.out.top[1].value # values[1]
    /\ \E x \in Range(values) :
           /\ ~is_missing(x)
           /\ \A i \in 1..5 : ret.out.top[i].value # x
           /\ Count(values, x) = ret.out.top[5].count

\* C8: detect_quality_issues emits at most one missing-data issue for a
\* column: one warning when missing_pct > 50, one info when
\* 20 < missing_pct <= 50, none when missing_pct <= 20.
C8_OneMissingIssue ==
    \A i \in 1..Len(columns_profile) :
        LET col == columns_profile[i]
            mi  == MissingIssues(col)
        IN  /\ Len(mi) <= 1
            /\ col.missing_pct > 500 => Len(mi) = 1 /\ mi[1].level = "warning"
            /\ (col.missing_pct > 200 /\ col.missing_pct <= 500) =>
                   Len(mi) = 1 /\ mi[1].level = "info"
            /\ col.missing_pct <= 200 => Len(mi) = 0

\* a column with missing_pct = 60: one missing-data issue, a warning
C8_Witness ==
    \E i \in 1..Len(columns_profile) :
        /\ columns_profile[i].missing_pct = 600
        /\ Len(MissingIssues(columns_profile[i])) = 1
        /\ MissingIssues(columns_profile[i])[1].level = "warning"

\* C9 as stated: the info-level missing-data issue carries the wording of
\* the warning-level one, "High missing data: X% of values are missing".
C9_SameWording ==
    \A i \in 1..Len(columns_profile) :
        \A h \in 1..Len(MissingIssues(columns_profile[i])) :
            LET issue == MissingIssues(columns_profile[i])[h]
            IN  issue.level = "info" => issue.message.fmt = HighMissingFmt

\* C9 amended: the info-level missing-data issue reads "Moderate missing
\* data: X% of values are missing" and the warning-level one "High missing
\* data: X% of values are missing": they differ in the level, the first word
\* and X, which is the column's missing_pct.
C9_ModerateWording ==
    \A i \in 1..Len(columns_profile) :
        \A h \in 1..Len(MissingIssues(columns_profile[i])) :
            LET issue == MissingIssues(columns_profile[i])[h]
                rest  == <<" missing data: {:.1f}% of values are missing">>
            IN  /\ issue.level \in {"info", "warning"}
                /\ issue.level = "info" => issue.message.fmt = <<"Moderate">> \o rest
                /\ issue.level = "warning" => issue.message.fmt = <<"High">> \o rest
                /\ issue.message.args = [pct |-> columns_profile[i].missing_pct]

\* a column with an info-level missing-data issue
C9_Witness ==
    \E i \in 1..Len(columns_profile) :
        /\ Len(MissingIssues(columns_profile[i])) = 1
        /\ MissingIssues(columns_profile[i])[1].level = "info"
        /\ columns_profile[i].missing_pct = 500

\* C10: for a column of either type the identifier note is among the issues
\* exactly when unique = count and count > 10: not with 10 present,
\* all-distinct values, and with 11.
C10_IdentifierNote ==
    \A i \in 1..Len(columns_profile) :
        LET col   == columns_profile[i]
            notes == IssuesWith(col, {IdentifierFmt})
        IN  /\ Len(notes) = 1 <=> (col.unique = col.count /\ col.count > 10)
            /\ Len(notes) <= 1
            /\ (col.unique = 10 /\ col.count = 10) => Len(notes) = 0
            /\ (col.unique = 11 /\ col.count = 11) => Len(notes) = 1

\* a report whose numeric column and text column both hold 11 present,
\* all-distinct values and both carry the note
C10_Witness ==
    /\ pc = "done"
    /\ \E i, j \in 1..Len(report.columns) :
           /\ report.columns[i].type = "number"
           /\ report.columns[j].type = "text"
           /\ \A h \in {i, j} :
                  /\ report.columns[h].count = 11
                  /\ report.columns[h].unique = 11
                  /\ Len(IssuesWith(report.columns[h], {IdentifierFmt})) = 1

\* the place of a kind of issue in the order of emission
KindOf(issue) ==
    LET fmt == issue.message.fmt
    IN  IF fmt \in {HighMissingFmt, ModerateMissingFmt} THEN 1
        ELSE IF fmt = LowCardinalityFmt THEN 2
        ELSE IF fmt = IdentifierFmt THEN 3
        ELSE IF fmt = OutlierFmt THEN 4
        ELSE IF fmt = VariabilityFmt THEN 5
        ELSE IF fmt = DominantFmt THEN 6
        ELSE 0

Kinds(col) == [h \in 1..Len(Issues(col)) |-> KindOf(Issues(col)[h])]

\* C11: in every issue list the issues come in the order missing data, low
\* cardinality, identifier, outlier, high variability, single dominant
\* value, each kind at most once; the outlier and variability notes only
\* for numeric columns, the dominant-value note only for text columns.
C11_IssueOrder ==
    \A i \in 1..Len(columns_profile) :
        LET col   == columns_profile[i]
            kinds == Kinds(col)
        IN  /\ \A h \in 1..Len(kinds) : kinds[h] \in 1..6
            /\ \A h \in 1..(Len(kinds) - 1) : kinds[h] < kinds[h + 1]
            /\ col.type # "number" => \A h \in 1..Len(kinds) : kinds[h] \notin {4, 5}
            /\ col.type # "text" => \A h \in 1..Len(kinds) : kinds[h] # 6

\* a report with a numeric column whose issues are missing data, low
\* cardinality, outlier and variability, in this order, and another report's
\* worth of text: the text column of the same dataset carries missing data
C11_Witness ==
    /\ pc = "done"
    /\ \E i, j \in 1..Len(report.columns) :
           /\ report.columns[i].type = "number"
           /\ Kinds(report.columns[i]) = <<1, 2, 4, 5>>
           /\ report.columns[j].type = "text"
           /\ Kinds(report.columns[j]) = <<1>>

\* the report of a call on rs that no other call precedes
AloneReport(rs) ==
    IF rs = <<>> THEN [n_rows |-> 0, n_cols |-> 0, columns |-> <<>>]
    ELSE [n_rows  |-> Len(rs),
          n_cols  |-> Len(rs[1]),
          columns |-> [i \in 1..Len(rs[1]) |-> column_profile(rs, rs[1][i].key)]]

\* C12: profile_rows keeps nothing between calls: a call returns the report
\* that every earlier call on the same dataset returned, whatever datasets
\* were profiled in between, which is the report of a call on that dataset
\* alone.
C12_SameReport ==
    /\ \A i, j \in 1..Len(done_calls) :
           done_calls[i].rows = done_calls[j].rows =>
               done_calls[i].report = done_calls[j].report
    /\ pc = "done" =>
           /\ \A i \in 1..Len(done_calls) :
                  done_calls[i].rows = rows => done_calls[i].report = report
           /\ report = AloneReport(rows)

\* a third call returns, on the dataset of the first call and after a call
\* on another dataset, a report with columns and issues
C12_Witness ==
    /\ pc = "done"
    /\ Len(done_calls) = 2
    /\ done_calls[1].rows = rows
    /\ done_calls[2].rows # rows
    /\ done_calls[2].rows # <<>>
    /\ \E i \in 1..Len(report.columns) : Issues(report.columns[i]) # <<>>

\* the rows whose value for key k is present: the key is there and its cell
\* is not a missing value
PresentRows(rs, k) ==
    {j \in 1..Len(rs) : HasKey(rs[j], k) /\ ~is_missing(get(rs[j], k, <<>>))}

\* C13: on a non-empty dataset profile_rows returns n_rows the number of
\* rows, n_cols the number of keys of the first row and one column profile
\* per key of the first row, in that row's key order; a row without the key
\* counts as missing for the column and never in its count; a key that only
\* a later row has gets no column.
C13_FirstRowColumns ==
    (pc = "done" /\ rows # <<>>) =>
        /\ report.n_rows = Len(rows)
        /\ report.n_cols = Len(rows[1])
        /\ Len(report.columns) = Len(rows[1])
        /\ \A i \in 1..Len(report.columns) :
               /\ report.columns[i].name = rows[1][i].key
               /\ report.columns[i].count =
                      Cardinality(PresentRows(rows, rows[1][i].key))
               /\ report.columns[i].missing =
                      Len(rows) - Cardinality(PresentRows(rows, rows[1][i].key))
        /\ \A j \in 2..Len(rows) : \A h \in 1..Len(rows[j]) :
               ~HasKey(rows[1], rows[j][h].key) =>
                   \A i \in 1..Len(report.columns) :
                       report.columns[i].name # rows[j][h].key

\* a report on two rows: the first has keys b, a in this order and a present
\* b; the second lacks b and has a key c of its own
C13_Witness ==
    /\ pc = "done"
    /\ Len(rows) = 2
    /\ keys(rows[1]) = <<"b", "a">>
    /\ ~HasKey(rows[2], "b") /\ HasKey(rows[2], "c")
    /\ report.n_cols = 2
    /\ report.columns[1].name = "b"
    /\ report.columns[1].count = 1 /\ report.columns[1].missing = 1

\* the positions of vals whose value is present
Present(vals) == {i \in 1..Len(vals) : ~is_missing(vals[i])}

\* the positions of vals whose value is present and parses
Parsed(vals) == {i \in Present(vals) : try_float(vals[i]).defined}

\* C14 as stated: for every value sequence passed to numeric_stats, also
\* one with present values that do not parse, count is n, the number of
\* present values that parse, and missing is total - n.
C14_CountIsParsed ==
    Returned("numeric_stats") =>
        /\ ret.out.count = Cardinality(Parsed(values))
        /\ ret.out.missing = Len(values) - Cardinality(Parsed(values))

\* C14 amended: for every value sequence passed to numeric_stats, count is
\* the number of present values, parsing or not, and missing is total - count,
\* the number of missing values; n, the number of values min, max, mean and
\* median are computed over, is at most count, and equals it exactly when
\* every present value parses.
C14_CountIsPresent ==
    Returned("numeric_stats") =>
        LET n == Cardinality(Parsed(values))
        IN  /\ ret.out.count = Cardinality(Present(values))
            /\ ret.out.missing = Len(values) - ret.out.count
            /\ ret.out.missing = Cardinality((1..Len(values)) \ Present(values))
            /\ n = Len(floats_of(values))
            /\ n <= ret.out.count
            /\ n = ret.out.count <=> Parsed(values) = Present(values)
            /\ ret.out.min.defined <=> n > 0

\* a parsed value, a present value that does not parse and a missing one:
\* count is 2 while the statistics are over the single parsed value
C14_Witness ==
    /\ Returned("numeric_stats")
    /\ values = << <<"1">>, <<"x">>, <<"N","A">> >>
    /\ ret.out.count = 2
    /\ ret.out.missing = 1
    /\ ret.out.unique = 1
    /\ ret.out.min = ret.out.max

\* C15 as stated: whenever numeric_stats defines q1 and q3, the statistics
\* satisfy min <= q1 <= median <= q3 <= max and the IQR q3 - q1 is not
\* negative.
C15_Ordered ==
    (Returned("numeric_stats") /\ ret.out.q1.defined /\ ret.out.q3.defined) =>
        /\ fle(ret.out.min.v, ret.out.q1.v)
        /\ fle(ret.out.q1.v, ret.out.median.v)
        /\ fle(ret.out.median.v, ret.out.q3.v)
        /\ fle(ret.out.q3.v, ret.out.max.v)
        /\ fle(0, fsub(ret.out.q3.v, ret.out.q1.v))

\* C15 amended: whenever numeric_stats defines q1 and q3 (n >= 4 parsed
\* values), min <= q1 <= q3 <= max; when every parsed value is finite also
\* q1 <= median <= q3 and the IQR q3 - q1 is not negative.  With infinite
\* values the median is nan exactly when the two middle values are -inf and
\* inf, and lies between q1 and q3 when it is not; the IQR is nan exactly
\* when q1 and q3 are the same infinity, and is not negative when it is not.
C15_OrderedWhenFinite ==
    (Returned("numeric_stats") /\ ret.out.q1.defined) =>
        LET fl  == floats_of(values)
            n   == Len(fl)
            o   == ret.out
            iqr == fsub(o.q3.v, o.q1.v)
        IN  /\ o.q3.defined /\ n >= 4
            /\ o.min.v <= o.q1.v /\ o.q1.v <= o.q3.v /\ o.q3.v <= o.max.v
            /\ (\A i \in 1..n : ~IsInf(fl[i])) =>
                   /\ o.q1.v <= o.median.v /\ o.median.v <= o.q3.v
                   /\ o.q3.v - o.q1.v >= 0
            /\ o.median.v = NaN <=>
                   /\ n % 2 = 0
                   /\ KthSmallest(fl, n \div 2 - 1) = NegInf
                   /\ KthSmallest(fl, n \div 2) = PosInf
            /\ o.median.v # NaN =>
                   fle(o.q1.v, o.median.v) /\ fle(o.median.v, o.q3.v)
            /\ iqr = NaN <=> (IsInf(o.q1.v) /\ o.q1.v = o.q3.v)
            /\ iqr # NaN => iqr >= 0

\* four parsed values out of order, an infinity at each end: q1 is 1, the
\* median 2 and q3 inf
C15_Witness ==
    /\ Returned("numeric_stats")
    /\ values = << <<"i","n","f">>, <<"3">>, <<"-","i","n","f">>, <<"1">> >>
    /\ ret.out.min = Float(NegInf)
    /\ ret.out.q1 = Float(TicksPerUnit)
    /\ ret.out.median = Float(2 * TicksPerUnit)
    /\ ret.out.q3 = Float(PosInf)
    /\ ret.out.max = Float(PosInf)

\* C16: in every report of profile_rows a column of type number has count
\* >= 1, min, max, mean, median and std that are not absent and
\* 1 <= unique <= count, so numeric_stats is never called there with no
\* parsed value; a column without a present value is of type text with
\* count 0, unique 0 and an empty top.
C16_NumberHasValues ==
    pc = "done" =>
        \A i \in 1..Len(report.columns) :
            LET col == report.columns[i]
            IN  /\ col.type = "number" =>
                       /\ col.count >= 1
                       /\ floats_of(column_values(rows, col.name)) # <<>>
                       /\ col.min.defined /\ col.max.defined
                       /\ col.mean.defined /\ col.median.defined
                       /\ col.std.defined
                       /\ 1 <= col.unique /\ col.unique <= col.count
                /\ PresentRows(rows, col.name) = {} =>
                       /\ col.type = "text"
                       /\ col.count = 0
                       /\ col.unique = 0
                       /\ col.top = <<>>

\* a report on two rows with a number column that has a missing cell and a
\* column without a present value, a cell of which is a row lacking the key
C16_Witness ==
    /\ pc = "done"
    /\ Len(rows) = 2
    /\ \E i, j \in 1..Len(report.columns) :
           /\ report.columns[i].type = "number"
           /\ report.columns[i].count = 1 /\ report.columns[i].missing = 1
           /\ report.columns[j].type = "text"
           /\ report.columns[j].count = 0 /\ report.columns[j].missing = 2
           /\ ~HasKey(rows[2], report.columns[j].name)

====
